---- MODULE Spec2Model ----
(***************************************************************************)
(* Model of solana-tx-aggregator: the ingestion loop of                    *)
(* SolanaAggregator (src/src/aggregator.rs) and the query handler of       *)
(* create_api (src/src/api.rs), sharing one Mutex<HashMap<Signature,       *)
(* TransactionDetails>>.                                                   *)
(*                                                                         *)
(* Signatures are numbered 1..MaxSig in ledger issuance order; 0 stands    *)
(* for Option::None.  Timestamps are Unix seconds within the 32-bit range, *)
(* where chrono's DateTime::from_timestamp always succeeds.                *)
(***************************************************************************)
EXTENDS Integers, Sequences, FiniteSets, TLC

\* Number of signatures the ledger issues during a run.
MaxSig == 3

\* Number of concurrent query handlers.
NumHandlers == 2

\* Most transactions collect_data pushes before the model stops it.
MaxStored == 3

\* limit: Some(1000) of GetConfirmedSignaturesForAddress2Config.
PageLimit == 1000

\* Option::None of Option<Signature>.
NoSignature == 0

Signatures == 1..MaxSig

Handlers == 1..NumHandlers

\* Owners of the store mutex.
NoHolder == <<"none", 0>>

Aggregator == <<"aggregator", 0>>

Handler(h) == <<"handler", h>>

VARIABLES
    ledger_top,      \* newest signature the ledger has issued (0: none yet)
    transactions,    \* the HashMap: function from a set of signatures to details
    key_order,       \* iteration order of the HashMap's keys
    poisoned,        \* the Mutex's poison flag
    lock,            \* current holder of the Mutex
    last_signature,  \* fetch_transactions' cursor (NoSignature: None)
    pc,              \* position of the ingestion task
    signatures,      \* the page fetch_signatures returned, newest first
    idx,             \* position of process_signatures' reverse iteration
    pending,         \* the (signature, details) built and waiting for the lock
    response,        \* the request and reply of the handler step just taken
    rpc,             \* outcome of the adapter call made last
    parsed_ok,       \* signatures get_transaction answered with a well-formed record
    drained,         \* signatures of the pages drained in completed iterations
    healthy,         \* no adapter call has failed or returned a malformed record
    collect_pc,              \* position of collect_data's loop
    collect_last_signature,  \* collect_data's cursor (NoSignature: None)
    collect_signatures,      \* the page collect_data's list call returned
    collect_idx,             \* position of collect_data's forward iteration
    collect_transactions,    \* collect_data's Vec of fetched transactions
    info_enabled             \* the INFO level passes the tracing filter

\* The locals of collect_data and the filter init_tracing installs.
collect_vars == <<collect_pc, collect_last_signature, collect_signatures,
                  collect_idx, collect_transactions, info_enabled>>

\* The state of the aggregator, its store and the query handlers.
aggregator_vars == <<transactions, key_order, poisoned, lock, last_signature,
                     pc, signatures, idx, pending, response, rpc, parsed_ok,
                     drained, healthy>>

vars == <<ledger_top, transactions, key_order, poisoned, lock, last_signature,
          pc, signatures, idx, pending, response, rpc, parsed_ok,
          drained, healthy, collect_pc, collect_last_signature,
          collect_signatures, collect_idx, collect_transactions, info_enabled>>

----------------------------------------------------------------------------
\* Signature strings (base58 text on the wire) and Signature::from_str.

SigNames == <<"sigA", "sigB", "sigC", "sigD", "sigE", "sigF">>

\* A well-formed signature string that the ledger never issues.
UnknownSigStr == "sigZ"

UnknownSig == Len(SigNames) + 1

ParseError == -1

\* Display of a Signature (to_string).
SigStr(s) == IF s = UnknownSig THEN UnknownSigStr ELSE SigNames[s]

\* Signature::from_str: Ok(signature) or Err (ParseError).
ParseSignature(str) ==
    IF str = UnknownSigStr THEN UnknownSig
    ELSE IF \E s \in 1..Len(SigNames) : SigNames[s] = str
         THEN CHOOSE s \in 1..Len(SigNames) : SigNames[s] = str
         ELSE ParseError

----------------------------------------------------------------------------
\* The ledger's content.

NoBlockTime == -1

\* block_time of the transaction with signature s, as the ledger reports it.
BlockTime(s) ==
    CASE s = 1 -> NoBlockTime
      [] s = 2 -> 1620000000
      [] s = 3 -> 1620000000 + 86399
      [] OTHER -> 1620000000 + 86400

\* The raw record get_transaction returns for a well-formed transaction.
GoodTransaction(s) ==
    [encoding |-> "json", message |-> "raw",
     account_keys |-> << <<"S", s>>, <<"R", s>> >>,
     instructions |-> << <<"D", s>> >>,
     block_time |-> BlockTime(s)]

\* Everything get_transaction may answer for signature s: an RPC error, or a
\* record that may lack the shape the aggregator expects.
TransactionResults(s) ==
    LET good == GoodTransaction(s) IN
    { [kind |-> "rpc_err"],
      [kind |-> "good", tx |-> good],
      [kind |-> "not_json", tx |-> [good EXCEPT !.encoding = "binary"]],
      [kind |-> "not_raw", tx |-> [good EXCEPT !.message = "parsed"]],
      [kind |-> "one_key", tx |-> [good EXCEPT !.account_keys = << <<"S", s>> >>]],
      [kind |-> "no_key", tx |-> [good EXCEPT !.account_keys = << >>]],
      [kind |-> "no_instruction", tx |-> [good EXCEPT !.instructions = << >>]] }

Min(a, b) == IF a < b THEN a ELSE b

\* get_signatures_for_address_with_config with before: None, until: cursor,
\* limit: PageLimit: the signatures newer than the cursor, newest first.
ListSignatures(cursor, top) ==
    LET n == Min(top - cursor, PageLimit) IN
    [i \in 1..n |-> SigStr(top - i + 1)]

----------------------------------------------------------------------------
\* The store.

\* An insert that drops the entries already stored.
MapInsertLosing(map, k, v) == [x \in {k} |-> v]

\* An insert that writes the value into every entry instead of the key's own.
MapInsertClobbering(map, k, v) == [x \in DOMAIN map \cup {k} |-> v]

\* An insert that evicts the entry of a key already present instead of
\* overwriting it.
MapInsertEvicting(map, k, v) ==
    IF k \in DOMAIN map
    THEN [x \in DOMAIN map \ {k} |-> map[x]]
    ELSE [x \in DOMAIN map \cup {k} |-> IF x = k THEN v ELSE map[x]]

\* HashMap::insert: overwrite or add.
MapInsert(map, k, v) ==
    [x \in DOMAIN map \cup {k} |-> IF x = k THEN v ELSE map[x]]

Range(seq) == {seq[i] : i \in DOMAIN seq}

\* The orders in which a HashMap holding the keys ks may iterate them.
Orders(ks) ==
    {o \in [1..Cardinality(ks) -> ks] : Range(o) = ks}

\* Iteration order after insert: unchanged on overwrite; unspecified (hash
\* seeds, resizing) once a key is added.
OrdersAfterInsert(order, k) ==
    IF k \in Range(order) THEN {order} ELSE Orders(Range(order) \cup {k})

\* transactions.keys().last().cloned()
KeysLast(order) ==
    IF order = << >> THEN NoSignature ELSE order[Len(order)]

\* TransactionDetails built by fetch_and_process_transaction.
BuildDetails(tx) ==
    [sender |-> tx.account_keys[1],
     receiver |-> tx.account_keys[2],
     data |-> tx.instructions[1],
     timestamp |-> IF tx.block_time = NoBlockTime THEN 0 ELSE tx.block_time]

NoPending == [signature |-> NoSignature]

----------------------------------------------------------------------------
\* The query handler of create_api.

\* Values of the id parameter: garbage, every issued signature, and a
\* well-formed signature the ledger never issues.
IdParams == {"zzz", UnknownSigStr} \cup {SigStr(s) : s \in Signatures}

\* Values of the day parameter as the fields of DD/MM/YYYY; << >> is text
\* without that shape, <<31, 2, 2021>> a date that does not exist.
DayParams == { <<1, 1, 1970>>, <<3, 5, 2021>>, <<4, 5, 2021>>, <<31, 2, 2021>>, << >> }

\* The query string: the parameters present and their values.
Requests ==
    {[present |-> {"id"}, id |-> i, day |-> << >>] : i \in IdParams}
    \cup {[present |-> {"day"}, id |-> "", day |-> d] : d \in DayParams}
    \cup {[present |-> {"id", "day"}, id |-> i, day |-> d] :
              i \in IdParams, d \in {<<3, 5, 2021>>, << >>}}
    \cup {[present |-> {}, id |-> "", day |-> << >>]}

NoRequest == [present |-> {}, id |-> "none", day |-> << >>]

IsLeap(y) == (y % 4 = 0 /\ y % 100 # 0) \/ y % 400 = 0

DaysInMonth(y, m) ==
    IF m = 2 THEN (IF IsLeap(y) THEN 29 ELSE 28)
    ELSE IF m \in {4, 6, 9, 11} THEN 30 ELSE 31

\* Days from 1970-01-01 to the civil date y-m-d (proleptic Gregorian).
DaysFromCivil(y, m, d) ==
    LET yy == IF m <= 2 THEN y - 1 ELSE y
        era == yy \div 400
        yoe == yy - era * 400
        mp == IF m > 2 THEN m - 3 ELSE m + 9
        doy == (153 * mp + 2) \div 5 + d - 1
        doe == yoe * 365 + yoe \div 4 - yoe \div 100 + doy
    IN era * 146097 + doe - 719468

\* NaiveDate::parse_from_str(day, "%d/%m/%Y"): the date as a day number, or
\* Err (ParseError) when the text is not a date.
ParseDate(p) ==
    IF Len(p) # 3 THEN ParseError
    ELSE IF p[2] \notin 1..12 \/ p[1] < 1 \/ p[1] > DaysInMonth(p[3], p[2])
         THEN ParseError
         ELSE DaysFromCivil(p[3], p[2], p[1])

\* DateTime::from_timestamp(timestamp, 0).unwrap().date_naive(), as a day number.
DateNaive(timestamp) == timestamp \div 86400

\* transactions.values().filter(..).collect(): the details of the given day,
\* in the map's iteration order.
TransactionsForDay(map, order, date) ==
    LET values == [i \in DOMAIN order |-> map[order[i]]] IN
    SelectSeq(values, LAMBDA t : DateNaive(t.timestamp) = date)

\* As Reply, with the day selector examined before the id selector.
ReplyDayFirst(req, map, order) ==
    IF "day" \in req.present
    THEN LET date == ParseDate(req.day) IN
         IF date = ParseError
         THEN [status |-> "panic", kind |-> "none"]
         ELSE [status |-> "200", kind |-> "list",
               body |-> TransactionsForDay(map, order, date)]
    ELSE IF "id" \in req.present
    THEN LET signature == ParseSignature(req.id) IN
         IF signature = ParseError
         THEN [status |-> "panic", kind |-> "none"]
         ELSE IF signature \in DOMAIN map
              THEN [status |-> "200", kind |-> "details", body |-> map[signature]]
              ELSE [status |-> "200", kind |-> "null"]
    ELSE [status |-> "200", kind |-> "text", body |-> "Invalid query parameters"]

\* The closure of create_api under the lock: the reply, or a panic.
Reply(req, map, order) ==
    IF "id" \in req.present
    THEN LET signature == ParseSignature(req.id) IN
         IF signature = ParseError
         THEN [status |-> "panic", kind |-> "none"]
         ELSE IF signature \in DOMAIN map
              THEN [status |-> "200", kind |-> "details", body |-> map[signature]]
              ELSE [status |-> "200", kind |-> "null"]
    ELSE IF "day" \in req.present
    THEN LET date == ParseDate(req.day) IN
         IF date = ParseError
         THEN [status |-> "panic", kind |-> "none"]
         ELSE [status |-> "200", kind |-> "list",
               body |-> TransactionsForDay(map, order, date)]
    ELSE [status |-> "200", kind |-> "text", body |-> "Invalid query parameters"]

NoResponse ==
    [request |-> NoRequest, reply |-> [status |-> "none", kind |-> "none"]]

----------------------------------------------------------------------------
Init ==
    /\ ledger_top = 0
    /\ transactions = << >>
    /\ key_order = << >>
    /\ poisoned = FALSE
    /\ lock = NoHolder
    /\ last_signature = NoSignature
    /\ pc = "poll"
    /\ signatures = << >>
    /\ idx = 0
    /\ pending = NoPending
    /\ response = NoResponse
    /\ rpc = "none"
    /\ parsed_ok = {}
    /\ drained = {}
    /\ healthy = TRUE
    /\ collect_pc = "poll"
    /\ collect_last_signature = NoSignature
    /\ collect_signatures = << >>
    /\ collect_idx = 0
    /\ collect_transactions = << >>
    /\ info_enabled = TRUE

\* The ledger finalizes one more transaction.
LedgerAppend ==
    /\ ledger_top < MaxSig
    /\ ledger_top' = ledger_top + 1
    /\ response' = NoResponse
    /\ UNCHANGED <<transactions, key_order, poisoned, lock, last_signature, pc,
                   signatures, idx, pending, rpc, parsed_ok,
                   drained, healthy>>
    /\ UNCHANGED collect_vars

\* Outcomes of the three RPC calls fetch_signatures makes.
ListOutcomes == {"identity_err", "account_err", "account_none", "list_err", "ok"}

\* fetch_signatures and the match on its result in fetch_transactions.
FetchSignatures ==
    /\ pc = "poll"
    /\ \E outcome \in ListOutcomes :
         /\ rpc' = outcome
         /\ healthy' = (healthy /\ outcome = "ok")
         /\ IF outcome \in {"identity_err", "account_err", "account_none"}
            THEN \* get_identity().unwrap() / get_account..().unwrap().value.unwrap()
                 /\ pc' = "panicked"
                 /\ signatures' = << >>
                 /\ idx' = 0
            ELSE IF outcome = "list_err"
            THEN \* Err(err): logged, then the sleep
                 /\ pc' = "sleep"
                 /\ signatures' = << >>
                 /\ idx' = 0
            ELSE LET page == ListSignatures(last_signature, ledger_top) IN
                 /\ signatures' = page
                 /\ idx' = Len(page)
                 /\ pc' = IF page = << >> THEN "update" ELSE "fetch"
    /\ response' = NoResponse
    /\ UNCHANGED <<ledger_top, transactions, key_order, poisoned, lock,
                   last_signature, pending, parsed_ok, drained>>
    /\ UNCHANGED collect_vars

\* The position after the loop body of process_signatures for entry idx.
NextPc(i) == IF i = 1 THEN "update" ELSE "fetch"

\* As Outcome, without the if let on the message's encoding: a message that
\* is not UiMessage::Raw is stored too.
OutcomeStoringUnparsed(res) ==
    IF res.kind = "rpc_err" THEN "err"
    ELSE IF res.tx.encoding # "json" THEN "skip"
    ELSE IF Len(res.tx.account_keys) < 2 \/ Len(res.tx.instructions) < 1
         THEN "panic"
         ELSE "store"

\* As Outcome, with an unwrap in place of the ? on get_transaction's result.
OutcomeUnwrappingFetch(res) ==
    IF res.kind = "rpc_err" THEN "panic"
    ELSE IF res.tx.encoding # "json" \/ res.tx.message # "raw" THEN "skip"
    ELSE IF Len(res.tx.account_keys) < 2 \/ Len(res.tx.instructions) < 1
         THEN "panic"
         ELSE "store"

\* What fetch_and_process_transaction does with the result of get_transaction,
\* up to the lock: "err" (the ? returns Err, which process_signatures logs),
\* "skip" (an if let does not match: Ok(()) with nothing stored), "panic" (an
\* index out of bounds) or "store" (details built).
Outcome(res) ==
    IF res.kind = "rpc_err" THEN "err"
    ELSE IF res.tx.encoding # "json" \/ res.tx.message # "raw" THEN "skip"
    ELSE IF Len(res.tx.account_keys) < 2 \/ Len(res.tx.instructions) < 1
         THEN "panic"
         ELSE "store"

\* One iteration of process_signatures up to the lock: parse the signature,
\* get_transaction, build the details.
FetchTransaction ==
    /\ pc = "fetch"
    /\ LET signature == ParseSignature(signatures[idx]) IN
       IF signature = ParseError
       THEN \* .expect("Invalid signature format")
            /\ pc' = "panicked"
            /\ UNCHANGED <<idx, pending, rpc, parsed_ok, healthy>>
       ELSE \E res \in TransactionResults(signature) :
            /\ rpc' = res.kind
            /\ healthy' = (healthy /\ res.kind = "good")
            /\ parsed_ok' = IF res.kind = "good"
                            THEN parsed_ok \cup {signature} ELSE parsed_ok
            /\ CASE Outcome(res) \in {"err", "skip"} ->
                     /\ pc' = NextPc(idx)
                     /\ idx' = idx - 1
                     /\ UNCHANGED pending
                 [] Outcome(res) = "panic" ->
                     /\ pc' = "panicked"
                     /\ UNCHANGED <<idx, pending>>
                 [] Outcome(res) = "store" ->
                     /\ pending' = [signature |-> signature,
                                    details |-> BuildDetails(res.tx)]
                     /\ pc' = "insert"
                     /\ UNCHANGED idx
    /\ response' = NoResponse
    /\ UNCHANGED <<ledger_top, transactions, key_order, poisoned, lock,
                   last_signature, signatures, drained>>
    /\ UNCHANGED collect_vars

\* self.transactions.lock().unwrap() in fetch_and_process_transaction.
InsertLock ==
    /\ pc = "insert"
    /\ lock = NoHolder
    /\ IF poisoned
       THEN pc' = "panicked" /\ UNCHANGED lock
       ELSE pc' = "insert_locked" /\ lock' = Aggregator
    /\ response' = NoResponse
    /\ UNCHANGED <<ledger_top, transactions, key_order, poisoned, last_signature,
                   signatures, idx, pending, rpc, parsed_ok,
                   drained, healthy>>
    /\ UNCHANGED collect_vars

\* As Insert, with the guard kept alive into the next loop iteration.
InsertKeepingGuard ==
    /\ pc = "insert_locked"
    /\ transactions' = MapInsert(transactions, pending.signature, pending.details)
    /\ key_order' \in OrdersAfterInsert(key_order, pending.signature)
    /\ pending' = NoPending
    /\ pc' = NextPc(idx)
    /\ idx' = idx - 1
    /\ response' = NoResponse
    /\ UNCHANGED <<ledger_top, poisoned, lock, last_signature, signatures, rpc,
                   parsed_ok, drained, healthy>>
    /\ UNCHANGED collect_vars

\* transactions.insert(*signature, transaction_details), then the guard drops.
Insert ==
    /\ pc = "insert_locked"
    /\ transactions' = MapInsert(transactions, pending.signature, pending.details)
    /\ key_order' \in OrdersAfterInsert(key_order, pending.signature)
    /\ lock' = NoHolder
    /\ pending' = NoPending
    /\ pc' = NextPc(idx)
    /\ idx' = idx - 1
    /\ response' = NoResponse
    /\ UNCHANGED <<ledger_top, poisoned, last_signature, signatures, rpc, parsed_ok, drained, healthy>>
    /\ UNCHANGED collect_vars

\* self.transactions.lock().unwrap() in update_last_signature.
UpdateLock ==
    /\ pc = "update"
    /\ lock = NoHolder
    /\ IF poisoned
       THEN pc' = "panicked" /\ UNCHANGED lock
       ELSE pc' = "update_locked" /\ lock' = Aggregator
    /\ response' = NoResponse
    /\ UNCHANGED <<ledger_top, transactions, key_order, poisoned, last_signature,
                   signatures, idx, pending, rpc, parsed_ok,
                   drained, healthy>>
    /\ UNCHANGED collect_vars

\* last_signature = self.update_last_signature(), then the guard drops.
UpdateLastSignature ==
    /\ pc = "update_locked"
    /\ last_signature' = KeysLast(key_order)
    /\ lock' = NoHolder
    /\ drained' = drained \cup {ParseSignature(signatures[i]) : i \in DOMAIN signatures}
    /\ pc' = "sleep"
    /\ response' = NoResponse
    /\ UNCHANGED <<ledger_top, transactions, key_order, poisoned, signatures, idx,
                   pending, rpc, parsed_ok, healthy>>
    /\ UNCHANGED collect_vars

\* sleep(Duration::from_secs(SLEEP_DURATION)).await, then the next iteration.
Sleep ==
    /\ pc = "sleep"
    /\ pc' = "poll"
    /\ response' = NoResponse
    /\ UNCHANGED <<ledger_top, transactions, key_order, poisoned, lock,
                   last_signature, signatures, idx, pending, rpc, parsed_ok, drained, healthy>>
    /\ UNCHANGED collect_vars

\* transactions.lock().unwrap() at the top of the handler's closure, for a
\* handler serving the request req.
HandlerLock(h) ==
    /\ lock = NoHolder
    /\ IF poisoned
       THEN \* lock() returns Err(PoisonError): the unwrap panics
            /\ \E req \in Requests :
                 response' = [request |-> req,
                              reply |-> [status |-> "panic", kind |-> "none"]]
            /\ UNCHANGED lock
       ELSE /\ lock' = Handler(h)
            /\ response' = NoResponse
    /\ UNCHANGED <<ledger_top, transactions, key_order, poisoned, last_signature,
                   pc, signatures, idx, pending, rpc, parsed_ok, drained, healthy>>
    /\ UNCHANGED collect_vars

\* As HandlerReply, with HashMap::remove in place of HashMap::get.
HandlerReplyRemoving(h) ==
    /\ lock = Handler(h)
    /\ \E req \in Requests :
         LET reply == Reply(req, transactions, key_order)
             found == IF reply.kind = "details"
                      THEN {ParseSignature(req.id)} ELSE {}
         IN /\ response' = [request |-> req, reply |-> reply]
            /\ poisoned' = (poisoned \/ reply.status = "panic")
            /\ transactions' = [k \in DOMAIN transactions \ found |-> transactions[k]]
            /\ key_order' = SelectSeq(key_order, LAMBDA k : k \notin found)
    /\ lock' = NoHolder
    /\ UNCHANGED <<ledger_top, last_signature, pc, signatures, idx, pending, rpc,
                   parsed_ok, drained, healthy>>
    /\ UNCHANGED collect_vars

\* The rest of the closure; the guard drops on return or while unwinding.
HandlerReply(h) ==
    /\ lock = Handler(h)
    /\ \E req \in Requests :
         LET reply == Reply(req, transactions, key_order) IN
         /\ response' = [request |-> req, reply |-> reply]
         /\ poisoned' = (poisoned \/ reply.status = "panic")
    /\ lock' = NoHolder
    /\ UNCHANGED <<ledger_top, transactions, key_order, last_signature, pc,
                   signatures, idx, pending, rpc, parsed_ok, drained, healthy>>
    /\ UNCHANGED collect_vars

Next ==
    \/ \E h \in Handlers : HandlerLock(h)
    \/ \E h \in Handlers : HandlerReply(h)
    \/ LedgerAppend
    \/ FetchSignatures
    \/ FetchTransaction
    \/ InsertLock
    \/ Insert
    \/ UpdateLock
    \/ UpdateLastSignature
    \/ Sleep

Spec == Init /\ [][Next]_vars

----------------------------------------------------------------------------
\* collect_data, the loop that main runs.

\* As Init, with the tracing filter left to the RUST_LOG environment variable.
InitCollect ==
    /\ ledger_top = 0
    /\ transactions = << >>
    /\ key_order = << >>
    /\ poisoned = FALSE
    /\ lock = NoHolder
    /\ last_signature = NoSignature
    /\ pc = "poll"
    /\ signatures = << >>
    /\ idx = 0
    /\ pending = NoPending
    /\ response = NoResponse
    /\ rpc = "none"
    /\ parsed_ok = {}
    /\ drained = {}
    /\ healthy = TRUE
    /\ collect_pc = "poll"
    /\ collect_last_signature = NoSignature
    /\ collect_signatures = << >>
    /\ collect_idx = 0
    /\ collect_transactions = << >>
    /\ info_enabled \in BOOLEAN

\* The list call of collect_data and the match on its result.
CollectSignatures ==
    /\ collect_pc = "poll"
    /\ \E outcome \in ListOutcomes :
         IF outcome \in {"identity_err", "account_err", "account_none"}
         THEN \* get_identity().unwrap() / get_account..().unwrap().value.unwrap()
              /\ collect_pc' = "panicked"
              /\ collect_signatures' = << >>
              /\ collect_idx' = 0
         ELSE IF outcome = "list_err"
         THEN \* Err(err): logged, then the sleep
              /\ collect_pc' = "sleep"
              /\ collect_signatures' = << >>
              /\ collect_idx' = 0
         ELSE LET page == ListSignatures(collect_last_signature, ledger_top) IN
              /\ collect_signatures' = page
              /\ collect_idx' = IF page = << >> THEN 0 ELSE 1
              /\ collect_pc' = IF page = << >> THEN "sleep" ELSE "fetch"
    /\ UNCHANGED <<collect_last_signature, collect_transactions, info_enabled>>
    /\ UNCHANGED ledger_top
    /\ UNCHANGED aggregator_vars

\* The position after the body of collect_data's for loop for entry i.
CollectNextPc(i) == IF i = Len(collect_signatures) THEN "sleep" ELSE "fetch"

\* One iteration of collect_data's for loop: parse the signature,
\* get_transaction, log, push, move the cursor.
CollectTransaction ==
    /\ collect_pc = "fetch"
    /\ LET signature == ParseSignature(collect_signatures[collect_idx]) IN
       IF signature = ParseError
       THEN \* .expect("Invalid signature format")
            /\ collect_pc' = "panicked"
            /\ UNCHANGED <<collect_idx, collect_transactions, collect_last_signature>>
       ELSE \/ \* Err(err): logged
               /\ collect_pc' = CollectNextPc(collect_idx)
               /\ collect_idx' = collect_idx + 1
               /\ UNCHANGED <<collect_transactions, collect_last_signature>>
            \/ \* Ok(transaction), block_time None: the unwrap in the log line
               /\ info_enabled
               /\ BlockTime(signature) = NoBlockTime
               /\ collect_pc' = "panicked"
               /\ UNCHANGED <<collect_idx, collect_transactions, collect_last_signature>>
            \/ \* Ok(transaction): pushed, and the cursor moves to it
               /\ ~info_enabled \/ BlockTime(signature) # NoBlockTime
               /\ Len(collect_transactions) < MaxStored
               /\ collect_transactions' =
                      Append(collect_transactions,
                             [signature |-> signature,
                              block_time |-> BlockTime(signature)])
               /\ collect_last_signature' = signature
               /\ collect_pc' = CollectNextPc(collect_idx)
               /\ collect_idx' = collect_idx + 1
    /\ UNCHANGED <<collect_signatures, info_enabled>>
    /\ UNCHANGED ledger_top
    /\ UNCHANGED aggregator_vars

\* sleep(Duration::from_secs(1)), then the next iteration of the loop.
CollectSleep ==
    /\ collect_pc = "sleep"
    /\ collect_pc' = "poll"
    /\ UNCHANGED <<collect_last_signature, collect_signatures, collect_idx,
                   collect_transactions, info_enabled>>
    /\ UNCHANGED ledger_top
    /\ UNCHANGED aggregator_vars

NextCollect ==
    \/ LedgerAppend
    \/ CollectSignatures
    \/ CollectTransaction
    \/ CollectSleep

SpecCollect == InitCollect /\ [][NextCollect]_vars

----------------------------------------------------------------------------
\* Properties.

\* The signatures of the current page.
PageSignatures == {ParseSignature(signatures[i]) : i \in DOMAIN signatures}

\* The ingestion task is past process_signatures for the current page.
DrainingDone == pc \in {"update", "update_locked", "sleep", "poll"}

\* An ingestion step that ran fetch_and_process_transaction's RPC call.
FetchStep == pc = "fetch" /\ (pc' # pc \/ idx' # idx)

\* The record the ledger holds for signature s, as complete details.
LedgerDetails(s) ==
    [sender |-> <<"S", s>>, receiver |-> <<"R", s>>, data |-> <<"D", s>>,
     timestamp |-> IF BlockTime(s) = NoBlockTime THEN 0 ELSE BlockTime(s)]

\* The request's parameters parse (or it selects nothing).
WellFormed(req) ==
    IF "id" \in req.present THEN ParseSignature(req.id) # ParseError
    ELSE IF "day" \in req.present THEN ParseDate(req.day) # ParseError
    ELSE TRUE

Replied == response.reply.status # "none"

\* C1: the store's keys are always among the signatures whose fetch succeeded
\* with a well-formed record, and once a page is drained the key set is
\* exactly that set; a signature whose fetches only failed or were malformed
\* is never a key.
C1_StoreKeysAreParsed ==
    /\ DOMAIN transactions \subseteq parsed_ok
    /\ DrainingDone => DOMAIN transactions = parsed_ok

\* A drained page of which one signature was stored and another was not.
C1_Witness ==
    /\ pc = "sleep"
    /\ \E s \in PageSignatures : s \in DOMAIN transactions
    /\ \E s \in PageSignatures : s \notin DOMAIN transactions

\* C2: after a non-empty page is drained the cursor is the newest signature
\* of that page, the last one attempted, whatever its fetch gave.
C2_CursorIsLastAttempted ==
    (pc = "sleep" /\ signatures # << >>)
        => last_signature = ParseSignature(signatures[1])

\* C3: under a healthy adapter no signature of a page drained in an earlier
\* iteration is listed again by a later poll.
C3_NoRefetchWhenHealthy ==
    (healthy /\ pc = "fetch") => PageSignatures \cap drained = {}

\* C4: a request whose id or day does not parse affects only itself: every
\* well-formed request is still answered, and the ingestion task stops for
\* no reason other than an adapter result.
C4_MalformedQueryIsLocal ==
    /\ (Replied /\ WellFormed(response.request)) => response.reply.status = "200"
    /\ pc = "panicked" =>
           rpc \in {"identity_err", "account_err", "account_none",
                    "one_key", "no_key", "no_instruction"}

\* C5: when get_transaction returns an error for a signature, nothing is
\* stored for it, the store is unchanged, and the loop moves to the next
\* signature of the same page (or to the cursor update after the last one).
C5_FetchErrorIsSkipped ==
    [][(FetchStep /\ rpc' = "rpc_err") =>
          /\ transactions' = transactions
          /\ key_order' = key_order
          /\ signatures' = signatures
          /\ idx' = idx - 1
          /\ pc' = (IF idx = 1 THEN "update" ELSE "fetch")]_vars

\* The loop is at a later signature of a page right after a failed fetch.
C5_Witness ==
    /\ rpc = "rpc_err"
    /\ pc = "fetch"
    /\ idx < Len(signatures)

\* C6: a fetched record that lacks the minimum shape is skipped: nothing is
\* stored for it and the loop moves on to the next signature.
C6_MalformedIsSkipped ==
    [][(FetchStep /\ rpc' \in {"not_json", "not_raw", "one_key", "no_key",
                               "no_instruction"}) =>
          /\ transactions' = transactions
          /\ idx' = idx - 1
          /\ pc' = (IF idx = 1 THEN "update" ELSE "fetch")]_vars

\* C7: when the list call of a poll fails with an RPC error, nothing is
\* written, the cursor keeps its value and the loop goes to its delay, to
\* poll again with the same cursor.
C7_ListErrorKeepsPolling ==
    [][(pc = "poll" /\ pc' # pc
        /\ rpc' \in {"identity_err", "account_err", "list_err"}) =>
          /\ pc' = "sleep"
          /\ transactions' = transactions
          /\ last_signature' = last_signature]_vars

\* C8: the ingestion loop never terminates: whatever the adapter calls
\* return, the task never leaves its loop.
C8_LoopNeverTerminates == pc # "panicked"

\* C9: with the writer's inserts interleaved with the query handlers, the
\* store changes only under the writer's lock, no key is ever lost, each
\* insert leaves its complete record in the store, and every record a reader
\* returns is one complete stored record.
C9_NoLostInsertNoTornRead ==
    [][/\ transactions' # transactions =>
             (lock = Aggregator /\ pc = "insert_locked")
       /\ DOMAIN transactions \subseteq DOMAIN transactions'
       /\ (pc = "insert_locked" /\ pc' # pc) =>
             /\ pending.signature \in DOMAIN transactions'
             /\ transactions'[pending.signature] = LedgerDetails(pending.signature)
       /\ \A k \in DOMAIN transactions' : transactions'[k] = LedgerDetails(k)
       /\ response'.reply.kind = "details" =>
             \E k \in DOMAIN transactions' :
                 response'.reply.body = LedgerDetails(k)
       /\ response'.reply.kind = "list" =>
             \A i \in DOMAIN response'.reply.body :
                 \E k \in DOMAIN transactions' :
                     response'.reply.body[i] = LedgerDetails(k)]_vars

\* A reader returned two records while the writer was between two inserts.
C9_Witness ==
    /\ response.reply.kind = "list"
    /\ Len(response.reply.body) >= 2
    /\ pc = "insert"

\* C10: a lookup by a well-formed identifier is answered with status 200 and
\* the stored details when the identifier is a key of the store, and with
\* status 200 and null when it is not; never with an error.
C10_IdLookupNeverFails ==
    LET req == response.request
        signature == ParseSignature(req.id)
    IN (Replied /\ "id" \in req.present /\ signature # ParseError) =>
          /\ response.reply.status = "200"
          /\ IF signature \in DOMAIN transactions
             THEN /\ response.reply.kind = "details"
                  /\ response.reply.body = transactions[signature]
             ELSE response.reply.kind = "null"

\* The civil date <<day, month, year>> of a day number counted from 1970-01-01.
CivilFromDays(days) ==
    LET z == days + 719468
        era == z \div 146097
        doe == z - era * 146097
        yoe == (doe - doe \div 1460 + doe \div 36524 - doe \div 146096) \div 365
        doy == doe - (365 * yoe + yoe \div 4 - yoe \div 100)
        mp == (5 * doy + 2) \div 153
        d == doy - (153 * mp + 2) \div 5 + 1
        m == IF mp < 10 THEN mp + 3 ELSE mp - 9
        y == yoe + era * 400 + (IF m <= 2 THEN 1 ELSE 0)
    IN <<d, m, y>>

\* The UTC calendar date of a Unix timestamp, as <<day, month, year>>.
UtcDate(timestamp) == CivilFromDays(timestamp \div 86400)

\* How many entries of the sequence body equal d.
Occurrences(body, d) == Cardinality({i \in DOMAIN body : body[i] = d})

\* C11: a day lookup with a well-formed date D is answered with status 200
\* and exactly the stored records whose timestamp falls on D in UTC: each of
\* them once, nothing else, and the empty sequence when none matches.
C11_DayLookupExact ==
    LET req == response.request IN
    (Replied /\ req.present = {"day"} /\ ParseDate(req.day) # ParseError) =>
        /\ response.reply.status = "200"
        /\ response.reply.kind = "list"
        /\ \A k \in DOMAIN transactions :
               Occurrences(response.reply.body, transactions[k]) =
                   (IF UtcDate(transactions[k].timestamp) = req.day THEN 1 ELSE 0)
        /\ \A i \in DOMAIN response.reply.body :
               \E k \in DOMAIN transactions : response.reply.body[i] = transactions[k]

\* C12: a request carrying neither id nor day is answered with status 200
\* and the JSON string "Invalid query parameters", whatever the store holds.
C12_NoSelectorSentinel ==
    (Replied /\ response.request.present = {}) =>
        /\ response.reply.status = "200"
        /\ response.reply.kind = "text"
        /\ response.reply.body = "Invalid query parameters"

\* An Insert step of the ingestion task.
InsertStep == pc = "insert_locked" /\ pc' # pc

\* C13: once a signature is stored with some details, it stays a key and
\* keeps exactly those details in every later state: no deletion, and no
\* later iteration changes a stored record.
C13_StoredDetailsAreStable ==
    [][\A k \in DOMAIN transactions :
           /\ k \in DOMAIN transactions'
           /\ transactions'[k] = transactions[k]]_vars

\* A later iteration has stored a record while the store still holds one
\* from an earlier page.
C13_Witness ==
    /\ pc = "sleep"
    /\ PageSignatures \cap DOMAIN transactions # {}
    /\ DOMAIN transactions \ PageSignatures # {}

\* C14: inserting a signature that is already stored with the same details
\* leaves the whole store as it was: its details, the key set and every other
\* entry.
C14_InsertIdempotent ==
    [][(/\ InsertStep
        /\ pending.signature \in DOMAIN transactions
        /\ transactions[pending.signature] = pending.details) =>
           transactions' = transactions]_vars

\* The record of a signature drained and stored in an earlier iteration has
\* just been fetched again and inserted a second time, next to another entry.
C14_Witness ==
    /\ healthy
    /\ rpc = "good"
    /\ pc \in {"fetch", "update"}
    /\ idx < Len(signatures)
    /\ ParseSignature(signatures[idx + 1]) \in drained
    /\ Cardinality(DOMAIN transactions) >= 2

\* The loop of fetch_transactions is draining a page.
AggregatorDraining == pc \in {"fetch", "insert", "insert_locked"}

\* The loop of collect_data is draining a page.
CollectDraining == collect_pc = "fetch"

\* C15: the cursor changes only after the whole page has been drained: no
\* step that enters the draining of a page, or stays in it, changes the cursor,
\* so that while draining the cursor is the one the poll was given.  This is
\* stated of both ingestion loops, fetch_transactions and collect_data.
C15_CursorMovesAfterDrain ==
    [][/\ AggregatorDraining' => last_signature' = last_signature
       /\ CollectDraining' => collect_last_signature' = collect_last_signature]_vars

\* The signatures of a page.
PageSet(page) == {ParseSignature(page[i]) : i \in DOMAIN page}

IsOldest(page, s) == \A t \in PageSet(page) : s <= t

IsNewest(page, s) == \A t \in PageSet(page) : t <= s

\* t is the signature of the page that follows s in ledger order.
IsNextAfter(page, s, t) ==
    /\ t \in PageSet(page)
    /\ s < t
    /\ \A u \in PageSet(page) : s < u => t <= u

\* A step of a loop that drains its page oldest first: draining begins at the
\* oldest signature of a non-empty page, moves from a signature to the next
\* one in ledger order, and is left for the next poll only from the newest.
DrainsOldestFirst(draining, page, i, draining2, done2, page2, i2) ==
    /\ draining2 => i2 \in DOMAIN page2
    /\ (~draining /\ draining2) => IsOldest(page2, ParseSignature(page2[i2]))
    /\ (draining /\ draining2 /\ i2 # i) =>
           /\ page2 = page
           /\ IsNextAfter(page, ParseSignature(page[i]), ParseSignature(page2[i2]))
    /\ (draining /\ done2) => IsNewest(page, ParseSignature(page[i]))

\* C16: within one draining phase the signatures of the page are attempted
\* one after the other, each once, from the oldest to the newest, and the
\* loop goes back to polling only after the newest; an empty page is not
\* drained at all.  This is stated of both ingestion loops.
C16_DrainsOldestToNewest ==
    [][/\ DrainsOldestFirst(AggregatorDraining, signatures, idx,
                            AggregatorDraining', pc' = "update",
                            signatures', idx')
       /\ DrainsOldestFirst(CollectDraining, collect_signatures, collect_idx,
                            CollectDraining', collect_pc' = "sleep",
                            collect_signatures', collect_idx')]_vars

\* A step of a query handler: it takes the lock, releases it, or replies.
QueryStep ==
    \/ \E h \in Handlers : lock = NoHolder /\ lock' = Handler(h)
    \/ \E h \in Handlers : lock = Handler(h) /\ lock' = NoHolder
    \/ response'.reply.status # "none"

\* C17: handling a request, whatever its selector, leaves the store's key
\* set, every stored record and the ingestion cursor as they were.
C17_QueriesAreReadOnly ==
    [][QueryStep =>
           /\ transactions' = transactions
           /\ key_order' = key_order
           /\ last_signature' = last_signature]_vars

\* An id lookup has returned a stored record while the cursor was set.
C17_Witness ==
    /\ response.reply.kind = "details"
    /\ last_signature # NoSignature
    /\ Cardinality(DOMAIN transactions) >= 2

\* C18: the ingestion task holds the store lock exactly while it inserts one
\* record or derives the cursor, never while it waits on an adapter call or
\* sleeps, and never asks for it while holding it; whoever holds the lock can
\* release it by its own next step, so a handler waiting for the lock is not
\* blocked for ever.
C18_LockHeldOnlyBriefly ==
    /\ lock = Aggregator <=> pc \in {"insert_locked", "update_locked"}
    /\ lock = Aggregator => ENABLED (Insert \/ UpdateLastSignature)
    /\ \A h \in Handlers : lock = Handler(h) => ENABLED HandlerReply(h)

\* The ingestion task waits for the lock while a query handler holds it.
C18_Witness ==
    /\ pc = "update"
    /\ \E h \in Handlers : lock = Handler(h)

\* Two replies are the same answer.
SameReply(a, b) ==
    /\ a.status = b.status
    /\ a.kind = b.kind
    /\ a.kind \in {"details", "list", "text"} => a.body = b.body

\* C19: a request carrying both id and day is answered exactly as the same
\* request carrying the id alone; the day value is not looked at and cannot
\* make the request fail.
C19_IdTakesPrecedence ==
    [][LET req == response'.request
           alone == [present |-> {"id"}, id |-> req.id, day |-> << >>]
       IN (response'.reply.status # "none" /\ req.present = {"id", "day"}) =>
              SameReply(response'.reply,
                        IF poisoned
                        THEN [status |-> "panic", kind |-> "none"]
                        ELSE Reply(alone, transactions, key_order))]_vars

\* A request with a stored id and a day that does not parse got the record.
C19_Witness ==
    /\ response.request.present = {"id", "day"}
    /\ response.request.day = << >>
    /\ response.reply.kind = "details"

\* C20: a fetched, well-shaped record without block time is inserted with
\* timestamp 0: the ingestion task does not stop in front of its insert, the
\* stored record carries timestamp 0, and a day lookup returns it for
\* 01/01/1970 and for no other day.
C20_MissingBlockTimeIsEpoch ==
    LET req == response.request IN
    /\ (pending # NoPending /\ BlockTime(pending.signature) = NoBlockTime) =>
           /\ pending.details.timestamp = 0
           /\ pc # "panicked"
    /\ \A k \in DOMAIN transactions :
           BlockTime(k) = NoBlockTime =>
               /\ transactions[k].timestamp = 0
               /\ (Replied /\ req.present = {"day"} /\ ParseDate(req.day) # ParseError) =>
                      /\ response.reply.status = "200"
                      /\ response.reply.kind = "list"
                      /\ Occurrences(response.reply.body, transactions[k]) =
                             (IF req.day = <<1, 1, 1970>> THEN 1 ELSE 0)

====
